---- MODULE Spec2Model ----
(***************************************************************************)
(* Model of optimum/onnxruntime/modeling_ort.py: the ORTModel adapter, its *)
(* artifact bookkeeping (model_save_dir, latest_model_name), the session   *)
(* handle (self.model) and the files it reads and writes.                  *)
(*                                                                         *)
(* The file system is a function from paths <<directory, name>> to file    *)
(* contents.  A content is a graph (its declared inputs and outputs) and   *)
(* the sequence of external passes (optimizer, quantizer) applied to it.   *)
(* A handle is an onnxruntime InferenceSession: it records the path it was *)
(* opened on, the content it read at that moment and its provider.         *)
(***************************************************************************)
EXTENDS Naturals, Sequences, FiniteSets, TLC

VARIABLES
    disk,       \* [Paths -> Content]: the artifact files on disk
    adapters,   \* [AdapterIds -> adapter object or NoAdapter]
    gpu,        \* what _is_gpu_available() reports in this process
    last,       \* the last call: operation, arguments, outcome, external calls
    ncalls      \* number of calls made so far

vars == <<disk, adapters, gpu, last, ncalls>>

-----------------------------------------------------------------------------
(* Bounds *)

\* a behaviour makes at most this many calls (constructions included)
MaxCalls == 3

\* the adapter objects
AdapterIds == {"A"}

-----------------------------------------------------------------------------
(* Names and directories *)

None == "None"

ONNX_WEIGHTS_NAME == "model.onnx"
OPTIMIZED_ONNX_WEIGHTS_NAME == "model-optimized.onnx"
QUANTIZED_ONNX_WEIGHTS_NAME == "model-quantized.onnx"

\* transformers.file_utils.default_cache_path
default_cache_path == "cache"

\* a user's directory holding exported models, and a directory a caller saves to
LocalDir == "local"
OutDir == "out"
\* the directory hf_hub_download stores downloaded files in
HubDir == "hub"
\* the remote repository name; it is no local directory
RepoId == "org/m"

\* Path(d).joinpath(n) for a directory: a sub-directory
joinpath(d, n) == d \o "/" \o n

Dirs == {default_cache_path, LocalDir, OutDir, HubDir, joinpath(default_cache_path, RepoId)}

\* a second model file in the same directory or repository
AltName == "alt.onnx"
\* the name the hub cache may store a download of file n under (a hash, not n)
BlobName(n) == "blob-" \o n

\* the model files of the remote repository
RemoteNames == {ONNX_WEIGHTS_NAME, AltName}

Names == {ONNX_WEIGHTS_NAME, OPTIMIZED_ONNX_WEIGHTS_NAME, QUANTIZED_ONNX_WEIGHTS_NAME,
          AltName} \cup {BlobName(n) : n \in RemoteNames}

Paths == Dirs \X Names

\* os.path.isdir(model_id)
isdir(model_id) == model_id \in Dirs

-----------------------------------------------------------------------------
(* Graphs: the declared input and output names of an exported model *)

\* the features the external exporter (transformers.onnx.FeaturesManager) knows;
\* get_model_from_feature raises for any other label
ExporterFeatures == {"default", "masked-lm", "causal-lm", "seq2seq-lm",
                     "sequence-classification", "token-classification",
                     "multiple-choice", "question-answering"}

Graphs == ExporterFeatures

GraphInputs(g) ==
    IF g \in {"causal-lm", "seq2seq-lm"}
    THEN <<"input_ids", "attention_mask">>
    ELSE <<"input_ids", "attention_mask", "token_type_ids">>

GraphOutputs(g) ==
    CASE g = "default" -> <<"last_hidden_state">>
      [] g = "question-answering" -> <<"start_logits", "end_logits">>
      [] OTHER -> <<"logits">>

NoFile == [graph |-> "none", passes |-> <<>>]

Exported(g) == [graph |-> g, passes |-> <<>>]

exists(p) == disk[p] # NoFile

-----------------------------------------------------------------------------
(* ORTModel.load_model *)

\* variant: the hardware is not consulted
default_provider_cpu(g) == "CPUExecutionProvider"

\* provider chosen when none is given
default_provider(g) == IF g THEN "CUDAExecutionProvider" ELSE "CPUExecutionProvider"

\* ort.InferenceSession(path, providers=[provider]) on the file as it is now
InferenceSession(d, path, provider) ==
    [path |-> path, content |-> d[path], provider |-> provider]

load_model(d, path, provider) ==
    InferenceSession(d, path, IF provider = None THEN default_provider(gpu) ELSE provider)

\* session.get_inputs() / get_outputs(): the names the loaded graph declares
get_inputs(h) == GraphInputs(h.content.graph)
get_outputs(h) == GraphOutputs(h.content.graph)

-----------------------------------------------------------------------------
(* Adapter objects *)

NoAdapter == [cls |-> "none"]

alive(a) == adapters[a] # NoAdapter

Classes == {"ORTModel", "ORTModelForFeatureExtraction", "ORTModelForQuestionAnswering",
            "ORTModelForSequenceClassification", "ORTModelForTokenClassification",
            "ORTModelForCausalLM"}

\* ORTModel itself carries no task label
base_pipeline_task == None

\* the class attribute pipeline_task
pipeline_task(cls) ==
    CASE cls = "ORTModelForFeatureExtraction" -> "default"
      [] cls = "ORTModelForQuestionAnswering" -> "question-answering"
      [] cls = "ORTModelForSequenceClassification" -> "sequence-classification"
      [] cls = "ORTModelForTokenClassification" -> "token-classification"
      [] cls = "ORTModelForCausalLM" -> "causal-lm"
      [] OTHER -> base_pipeline_task

\* {output_key.name: idx for idx, output_key in enumerate(self.model.get_outputs())}
name_to_idx(names) ==
    [n \in {names[i] : i \in DOMAIN names} |->
        (CHOOSE i \in DOMAIN names : names[i] = n /\ \A j \in DOMAIN names :
                                          names[j] = n => j <= i) - 1]

\* ORTModel.__init__(model, config, **kwargs), and for a task class the mapping its
\* own __init__ adds from the outputs of the handle it is given
__init__(cls, model, config, kwargs) ==
    [cls |-> cls,
     model |-> model,
     config |-> config,
     model_outputs |-> IF cls = "ORTModel" THEN name_to_idx(<<>>)
                       ELSE name_to_idx(get_outputs(model)),
     model_save_dir |-> kwargs.model_save_dir,
     latest_model_name |-> IF kwargs.latest_model_name = None
                           THEN "model.onnx" ELSE kwargs.latest_model_name]

\* self.model_save_dir.joinpath(self.latest_model_name)
current_path(ad) == <<ad.model_save_dir, ad.latest_model_name>>

\* the record of a call
Call(op, a, ok, calls, arg, res) ==
    [op |-> op, a |-> a, ok |-> ok, calls |-> calls, arg |-> arg, res |-> res]

called(name) == \E i \in 1..Len(last.calls) : last.calls[i] = name

\* every call counts against the bound
tick == ncalls < MaxCalls /\ ncalls' = ncalls + 1

-----------------------------------------------------------------------------
(* Initial state: a local directory with two exported models, nothing else *)

InitialDisk ==
    [p \in Paths |->
        IF p = <<LocalDir, ONNX_WEIGHTS_NAME>> THEN Exported("sequence-classification")
        ELSE IF p = <<LocalDir, AltName>> THEN Exported("question-answering")
        ELSE NoFile]

\* the files of the remote repository RepoId
RemoteRepo(n) ==
    IF n = ONNX_WEIGHTS_NAME THEN Exported("sequence-classification")
    ELSE IF n = AltName THEN Exported("question-answering")
    ELSE NoFile

NoCall == Call("none", None, TRUE, <<>>, [x |-> None], [x |-> None])

Init ==
    /\ disk = InitialDisk
    /\ adapters = [a \in AdapterIds |-> NoAdapter]
    /\ gpu \in BOOLEAN
    /\ last = NoCall
    /\ ncalls = 0

-----------------------------------------------------------------------------
(* ORTModel._from_pretrained *)

\* the model types a configuration may carry; "" is PretrainedConfig's default
ModelTypes == {"bert", "xlnet"}

\* the file_name arguments tried
FileNameArgs == {None, AltName}

\* model_file_name = file_name if file_name is not None else ONNX_WEIGHTS_NAME
model_file_name(file_name) == IF file_name # None THEN file_name ELSE ONNX_WEIGHTS_NAME

\* the kwargs of the local-directory branch
local_kwargs(model_id, file_name) ==
    [model_save_dir |-> model_id, latest_model_name |-> None]

\* variant: the hub branch leaves latest_model_name at its default
hub_kwargs_default_name(model_cache_path) ==
    [model_save_dir |-> model_cache_path[1], latest_model_name |-> None]

\* the kwargs of the hub branch, from the path hf_hub_download returned
hub_kwargs(model_cache_path) ==
    [model_save_dir |-> model_cache_path[1], latest_model_name |-> model_cache_path[2]]

\* the local paths hf_hub_download may return for a file of the repository
DownloadPaths(n) == {<<HubDir, n>>, <<HubDir, BlobName(n)>>}

from_pretrained_local(a, cls, model_id, file_name, model_type, fail) ==
    LET path == <<model_id, model_file_name(file_name)>>
        arg  == [model_id |-> model_id, file_name |-> file_name]
    IN  /\ isdir(model_id)
        /\ IF ~exists(path) \/ fail = "load_model"
           THEN /\ last' = Call("_from_pretrained", a, FALSE, <<"load_model">>, arg,
                                [path |-> path])
                /\ UNCHANGED <<disk, adapters>>
           ELSE /\ adapters' = [adapters EXCEPT ![a] =
                        __init__(cls, load_model(disk, path, None),
                                 [model_type |-> model_type],
                                 local_kwargs(model_id, file_name))]
                /\ last' = Call("_from_pretrained", a, TRUE, <<"load_model">>, arg,
                                [path |-> path])
                /\ UNCHANGED disk

from_pretrained_hub(a, cls, model_id, file_name, model_type, fail) ==
    LET n   == model_file_name(file_name)
        arg == [model_id |-> model_id, file_name |-> file_name]
    IN  /\ ~isdir(model_id)
        /\ IF RemoteRepo(n) = NoFile \/ fail = "hf_hub_download"
           THEN /\ last' = Call("_from_pretrained", a, FALSE, <<"hf_hub_download">>, arg,
                                [path |-> None])
                /\ UNCHANGED <<disk, adapters>>
           ELSE \E model_cache_path \in DownloadPaths(n) :
                LET d == [disk EXCEPT ![model_cache_path] = RemoteRepo(n)]
                IN  /\ disk' = d
                    /\ IF fail = "load_model"
                       THEN /\ last' = Call("_from_pretrained", a, FALSE,
                                            <<"hf_hub_download", "load_model">>, arg,
                                            [path |-> model_cache_path])
                            /\ UNCHANGED adapters
                       ELSE /\ adapters' = [adapters EXCEPT ![a] =
                                    __init__(cls, load_model(d, model_cache_path, None),
                                             [model_type |-> model_type],
                                             hub_kwargs(model_cache_path))]
                            /\ last' = Call("_from_pretrained", a, TRUE,
                                            <<"hf_hub_download", "load_model">>, arg,
                                            [path |-> model_cache_path])

_from_pretrained(a, cls, model_id, file_name, model_type, fail) ==
    /\ tick
    /\ ~alive(a)
    /\ \/ from_pretrained_local(a, cls, model_id, file_name, model_type, fail)
       \/ from_pretrained_hub(a, cls, model_id, file_name, model_type, fail)
    /\ UNCHANGED gpu

-----------------------------------------------------------------------------
(* The external optimizer and quantizer *)

\* the optimization levels tried; 99 is the default OptimizationConfig
OptimizationLevels == {1, 99}

\* optimize_model(...), then convert_float_to_float16() when a GPU is available
optimize_pass(level, g) ==
    (IF level = 99 THEN "optimize_model(99)" ELSE "optimize_model(1)")
        \o (IF g THEN "+fp16" ELSE "")

optimized(c, level, g) == [c EXCEPT !.passes = Append(@, optimize_pass(level, g))]

\* ONNXQuantizer(model=onnx_model, ...).quantize_model()
quantized(c) == [c EXCEPT !.passes = Append(@, "ONNXQuantizer")]

\* ORTConfigManager: the model types the optimizer registry knows
Registry == {"bert"}
check_supported_model_or_raise(model_type) == model_type \in Registry

-----------------------------------------------------------------------------
(* ORTModel.optimize *)

\* the directories a caller passes as output_path
OutputPathArgs == {default_cache_path, OutDir}

\* output_path = Path(default_cache_path).joinpath(OPTIMIZED_ONNX_WEIGHTS_NAME)
optimize_output_path(output_path) == <<default_cache_path, OPTIMIZED_ONNX_WEIGHTS_NAME>>

\* variant: optimize does not consult the registry
optimize_supported_unchecked(ad) == TRUE

\* ORTConfigManager.check_supported_model_or_raise(self.config.model_type)
optimize_supported(ad) == check_supported_model_or_raise(ad.config.model_type)

\* variant: the session is opened before the optimized file is written
optimize_update_stale(ad, d, output_path) ==
    [ad EXCEPT !.model = load_model(disk, output_path, None),
               !.model_save_dir = output_path[1],
               !.latest_model_name = output_path[2]]

\* self.model = load_model(output_path); self.model_save_dir = output_path.parent;
\* self.latest_model_name = output_path.name
optimize_update(ad, d, output_path) ==
    [ad EXCEPT !.model = load_model(d, output_path, None),
               !.model_save_dir = output_path[1],
               !.latest_model_name = output_path[2]]

\* variant: the bookkeeping is assigned before the session is opened
optimize_load_failed_partial(ad, output_path) ==
    [ad EXCEPT !.model_save_dir = output_path[1],
               !.latest_model_name = output_path[2]]

\* load_model raising leaves optimize before any of its three assignments
optimize_load_failed(ad, output_path) == ad

OptimizeFailures == {"none", "optimize_model", "save_model_to_file", "load_model"}

optimize(a, level, output_path_arg, fail) ==
    LET ad          == adapters[a]
        _input_path == current_path(ad)
        output_path == optimize_output_path(output_path_arg)
        arg         == [level |-> level]
        raise(calls) == /\ last' = Call("optimize", a, FALSE, calls, arg, [ret |-> None])
                        /\ UNCHANGED <<disk, adapters>>
    IN  /\ tick
        /\ alive(a)
        /\ UNCHANGED gpu
        /\ IF ~optimize_supported(ad)
           THEN raise(<<>>)
           ELSE IF ~exists(_input_path) \/ fail = "optimize_model"
           THEN raise(<<"optimize_model">>)
           ELSE IF fail = "save_model_to_file"
           THEN raise(<<"optimize_model", "save_model_to_file">>)
           ELSE LET d == [disk EXCEPT ![output_path] = optimized(disk[_input_path], level, gpu)]
                IN  /\ disk' = d
                    /\ IF fail = "load_model"
                       THEN /\ last' = Call("optimize", a, FALSE,
                                    <<"optimize_model", "save_model_to_file", "load_model">>,
                                    arg, [ret |-> None])
                            /\ adapters' = [adapters EXCEPT ![a] =
                                                optimize_load_failed(ad, output_path)]
                       ELSE /\ adapters' = [adapters EXCEPT ![a] = optimize_update(ad, d, output_path)]
                            /\ last' = Call("optimize", a, TRUE,
                                    <<"optimize_model", "save_model_to_file", "load_model">>,
                                    arg, [ret |-> a])

-----------------------------------------------------------------------------
(* ORTModel.quantize *)

\* variant: quantize checks the configuration only
quantize_rejected_static_only(is_static, g) == is_static

\* the two checks that open quantize: static configuration, then GPU
quantize_rejected(is_static, g) == is_static \/ g

\* output_path = Path(default_cache_path).joinpath(QUANTIZED_ONNX_WEIGHTS_NAME)
quantize_output_path(output_path) == <<default_cache_path, QUANTIZED_ONNX_WEIGHTS_NAME>>

\* variant: quantize replaces the session but not the bookkeeping
quantize_update_model_only(ad, d, output_path) ==
    [ad EXCEPT !.model = load_model(d, output_path, None)]

\* self.model = load_model(output_path); self.model_save_dir = output_path.parent;
\* self.latest_model_name = output_path.name
quantize_update(ad, d, output_path) ==
    [ad EXCEPT !.model = load_model(d, output_path, None),
               !.model_save_dir = output_path[1],
               !.latest_model_name = output_path[2]]

QuantizeFailures == {"none", "onnx.load", "quantize_model", "save_model_to_file", "load_model"}

quantize(a, is_static, output_path_arg, fail) ==
    LET ad          == adapters[a]
        _input_path == current_path(ad)
        output_path == quantize_output_path(output_path_arg)
        arg         == [is_static |-> is_static, output_path |-> output_path_arg]
        raise(calls) == /\ last' = Call("quantize", a, FALSE, calls, arg, [ret |-> None])
                        /\ UNCHANGED <<disk, adapters>>
    IN  /\ tick
        /\ alive(a)
        /\ UNCHANGED gpu
        /\ IF quantize_rejected(is_static, gpu)
           THEN raise(<<>>)
           ELSE IF ~exists(_input_path) \/ fail = "onnx.load"
           THEN raise(<<"onnx.load">>)
           ELSE IF fail = "quantize_model"
           THEN raise(<<"onnx.load", "ONNXQuantizer", "quantize_model">>)
           ELSE IF fail = "save_model_to_file"
           THEN raise(<<"onnx.load", "ONNXQuantizer", "quantize_model", "save_model_to_file">>)
           ELSE LET d == [disk EXCEPT ![output_path] = quantized(disk[_input_path])]
                    calls == <<"onnx.load", "ONNXQuantizer", "quantize_model",
                               "save_model_to_file", "load_model">>
                IN  /\ disk' = d
                    /\ IF fail = "load_model"
                       THEN /\ last' = Call("quantize", a, FALSE, calls, arg, [ret |-> None])
                            /\ UNCHANGED adapters
                       ELSE /\ adapters' = [adapters EXCEPT ![a] = quantize_update(ad, d, output_path)]
                            /\ last' = Call("quantize", a, TRUE, calls, arg, [ret |-> a])

-----------------------------------------------------------------------------
(* ORTModel._save_pretrained *)

\* the directories a caller saves to
SaveDirs == {OutDir, LocalDir}

\* src_path = self.model_save_dir.joinpath(self.latest_model_name)
save_src_path(ad) == current_path(ad)

\* dst_path = Path(save_directory).joinpath(model_file_name)
save_dst_path(save_directory, file_name) == <<save_directory, model_file_name(file_name)>>

\* shutil.copyfile(src, dst): SameFileError when src is dst, an error when src is missing
copyfile_ok(d, src, dst) == src # dst /\ d[src] # NoFile
copyfile(d, src, dst) == [d EXCEPT ![dst] = d[src]]

_save_pretrained(a, save_directory, file_name) ==
    LET ad       == adapters[a]
        src_path == save_src_path(ad)
        dst_path == save_dst_path(save_directory, file_name)
        arg      == [save_directory |-> save_directory, file_name |-> file_name]
        res      == [src |-> src_path, dst |-> dst_path]
    IN  /\ tick
        /\ alive(a)
        /\ UNCHANGED <<adapters, gpu>>
        /\ IF copyfile_ok(disk, src_path, dst_path)
           THEN /\ disk' = copyfile(disk, src_path, dst_path)
                /\ last' = Call("_save_pretrained", a, TRUE, <<"copyfile">>, arg, res)
           ELSE /\ last' = Call("_save_pretrained", a, FALSE, <<"copyfile">>, arg, res)
                /\ UNCHANGED disk

-----------------------------------------------------------------------------
(* ORTModel._from_transformers *)

\* the pipeline tags HfApi().model_info(model_id).pipeline_tag may carry (None: no tag)
UpstreamTags == {"sentiment-analysis", "text-classification", "zero-shot-classification",
                 "feature-extraction", "fill-mask", "question-answering",
                 "token-classification", "text-generation", "multiple-choice", None}

\* the synonym table applied to the upstream tag
remap(tag) ==
    IF tag \in {"sentiment-analysis", "text-classification", "zero-shot-classification"}
    THEN "sequence-classification"
    ELSE IF tag \in {"feature-extraction", "fill-mask"}
    THEN "default"
    ELSE tag

\* task = cls.pipeline_task if it is not None, else the remapped upstream tag
export_task(cls, tag) == IF pipeline_task(cls) # None THEN pipeline_task(cls) ELSE remap(tag)

\* FeaturesManager.get_model_from_feature(task, model_id) raises for an unknown feature
get_model_from_feature_ok(task) == task \in ExporterFeatures

\* model.config.model_type of the transformers model behind RepoId
RepoModelType == "bert"

FromTransformersFailures == {"none", "check_supported_model_or_raise", "export", "load_model"}

from_transformers_step(a, cls, model_id, save_dir_arg, tag, fail) ==
    LET save_dir == joinpath(save_dir_arg, model_id)
        task     == export_task(cls, tag)
        arg      == [cls |-> cls, tag |-> tag]
        info     == IF tag = "not consulted" THEN <<>> ELSE <<"model_info">>
        output   == <<save_dir, ONNX_WEIGHTS_NAME>>
        raise(calls) == /\ last' = Call("_from_transformers", a, FALSE, info \o calls, arg,
                                        [task |-> task, exported |-> FALSE])
                        /\ UNCHANGED <<disk, adapters>>
    IN  IF ~get_model_from_feature_ok(task)
        THEN raise(<<"get_model_from_feature">>)
        ELSE IF fail = "check_supported_model_or_raise"
        THEN raise(<<"get_model_from_feature", "check_supported_model_or_raise">>)
        ELSE IF fail = "export"
        THEN raise(<<"get_model_from_feature", "check_supported_model_or_raise", "export">>)
        ELSE LET d == [disk EXCEPT ![output] = Exported(task)]
                 calls == info \o <<"get_model_from_feature", "check_supported_model_or_raise",
                                    "export", "load_model">>
                 res == [task |-> task, exported |-> TRUE]
             IN  /\ disk' = d
                 /\ IF fail = "load_model"
                    THEN /\ last' = Call("_from_transformers", a, FALSE, calls, arg, res)
                         /\ UNCHANGED adapters
                    ELSE /\ adapters' = [adapters EXCEPT ![a] =
                                __init__(cls, load_model(d, output, None),
                                         [model_type |-> RepoModelType],
                                         local_kwargs(save_dir, None))]
                         /\ last' = Call("_from_transformers", a, TRUE, calls, arg, res)

_from_transformers(a, cls, model_id, save_dir_arg, fail) ==
    /\ tick
    /\ ~alive(a)
    /\ UNCHANGED gpu
    /\ IF pipeline_task(cls) # None
       THEN from_transformers_step(a, cls, model_id, save_dir_arg, "not consulted", fail)
       ELSE \E tag \in UpstreamTags :
                from_transformers_step(a, cls, model_id, save_dir_arg, tag, fail)

-----------------------------------------------------------------------------
(* The task adapters' forward *)

\* the output names a task class reads from the engine's result, in the order read
required_outputs(cls) ==
    CASE cls = "ORTModelForFeatureExtraction" -> <<"last_hidden_state">>
      [] cls = "ORTModelForQuestionAnswering" -> <<"start_logits", "end_logits">>
      [] cls \in {"ORTModelForSequenceClassification", "ORTModelForTokenClassification",
                  "ORTModelForCausalLM"} -> <<"logits">>
      [] OTHER -> <<>>

Range(seq) == {seq[i] : i \in DOMAIN seq}

\* variant: token_type_ids is always put in the input map
onnx_inputs_with_token_type_ids(cls, token_type_ids) ==
    {"input_ids", "attention_mask"}
        \cup (IF cls # "ORTModelForCausalLM" THEN {"token_type_ids"} ELSE {})

\* the keys of onnx_inputs: input_ids and attention_mask, and token_type_ids when it
\* is not None (ORTModelForCausalLM.forward has no token_type_ids parameter)
onnx_inputs(cls, token_type_ids) ==
    {"input_ids", "attention_mask"}
        \cup (IF token_type_ids /\ cls # "ORTModelForCausalLM"
              THEN {"token_type_ids"} ELSE {})

\* self.model.run(None, onnx_inputs): the session takes exactly its declared inputs
run_accepts(h, keys) == keys = Range(get_inputs(h))

\* outputs[self.model_outputs[name]] raises KeyError for a name the mapping lacks and
\* IndexError for a position the result does not have
pick_ok(ad, outputs, name) ==
    /\ name \in DOMAIN ad.model_outputs
    /\ ad.model_outputs[name] + 1 \in DOMAIN outputs

pick(ad, outputs, name) == outputs[ad.model_outputs[name] + 1]

NoResult == name_to_idx(<<>>)

\* forward(input_ids, attention_mask, token_type_ids): the arguments say which tensors
\* are supplied (not None); the engine's positional result carries, at each position,
\* the data of the output declared there
forward_call(ad, input_ids, attention_mask, token_type_ids, run_fails) ==
    LET keys    == onnx_inputs(ad.cls, token_type_ids)
        outputs == get_outputs(ad.model)
        fields  == required_outputs(ad.cls)
    IN  IF ad.cls = "ORTModel" \/ ~input_ids \/ ~attention_mask
        THEN [ok |-> FALSE, runs |-> 0, run_ok |-> FALSE, keys |-> {}, result |-> NoResult]
        ELSE IF run_fails \/ ~run_accepts(ad.model, keys)
        THEN [ok |-> FALSE, runs |-> 1, run_ok |-> FALSE, keys |-> keys, result |-> NoResult]
        ELSE IF \E i \in DOMAIN fields : ~pick_ok(ad, outputs, fields[i])
        THEN [ok |-> FALSE, runs |-> 1, run_ok |-> TRUE, keys |-> keys, result |-> NoResult]
        ELSE [ok |-> TRUE, runs |-> 1, run_ok |-> TRUE, keys |-> keys,
              result |-> [f \in Range(fields) |-> pick(ad, outputs, f)]]

forward(a, input_ids, attention_mask, token_type_ids, run_fails) ==
    LET r == forward_call(adapters[a], input_ids, attention_mask, token_type_ids, run_fails)
    IN  /\ tick
        /\ alive(a)
        /\ last' = Call("forward", a, r.ok, [i \in 1..r.runs |-> "run"],
                        [input_ids |-> input_ids, attention_mask |-> attention_mask,
                         token_type_ids |-> token_type_ids], r)
        /\ UNCHANGED <<disk, adapters, gpu>>

-----------------------------------------------------------------------------
(* ORTModelForCausalLM.prepare_inputs_for_generation *)

\* inputs = {"input_ids": input_ids}, plus attention_mask when kwargs carries one
generation_inputs(attention_mask, other_kwargs) ==
    {"input_ids"} \cup (IF attention_mask THEN {"attention_mask"} ELSE {})

prepare_inputs_for_generation(a, attention_mask, other_kwargs) ==
    /\ tick
    /\ alive(a)
    /\ adapters[a].cls = "ORTModelForCausalLM"
    /\ last' = Call("prepare_inputs_for_generation", a, TRUE, <<>>,
                    [attention_mask |-> attention_mask, other_kwargs |-> other_kwargs],
                    [inputs |-> generation_inputs(attention_mask, other_kwargs)])
    /\ UNCHANGED <<disk, adapters, gpu>>

-----------------------------------------------------------------------------
(* A direct call of the static method ORTModel.load_model *)

Providers == {None, "CPUExecutionProvider", "CUDAExecutionProvider"}

NoHandle == [path |-> None]

load_model_call(path, provider, fail) ==
    /\ tick
    /\ IF ~exists(path) \/ fail
       THEN last' = Call("load_model", None, FALSE, <<"InferenceSession">>,
                         [path |-> path, provider |-> provider], [handle |-> NoHandle])
       ELSE last' = Call("load_model", None, TRUE, <<"InferenceSession">>,
                         [path |-> path, provider |-> provider],
                         [handle |-> load_model(disk, path, provider)])
    /\ UNCHANGED <<disk, adapters, gpu>>

-----------------------------------------------------------------------------
(* The specification *)

\* the identifiers handed to _from_pretrained: two directories and a repository
ModelIds == {LocalDir, OutDir, RepoId}

\* the classes _from_pretrained is called on directly
PretrainedClasses == {"ORTModel", "ORTModelForSequenceClassification"}

Next ==
    \/ \E a \in AdapterIds, cls \in PretrainedClasses, model_id \in ModelIds,
          file_name \in FileNameArgs, model_type \in ModelTypes,
          fail \in {"none", "hf_hub_download", "load_model"} :
            _from_pretrained(a, cls, model_id, file_name, model_type, fail)
    \/ \E a \in AdapterIds, cls \in Classes, fail \in FromTransformersFailures :
            _from_transformers(a, cls, RepoId, default_cache_path, fail)
    \/ \E a \in AdapterIds, level \in OptimizationLevels,
          output_path \in OutputPathArgs, fail \in OptimizeFailures :
            optimize(a, level, output_path, fail)
    \/ \E a \in AdapterIds, is_static \in BOOLEAN,
          output_path \in OutputPathArgs, fail \in QuantizeFailures :
            quantize(a, is_static, output_path, fail)
    \/ \E a \in AdapterIds, save_directory \in SaveDirs, file_name \in FileNameArgs :
            _save_pretrained(a, save_directory, file_name)

Spec == Init /\ [][Next]_vars

\* Inference: adapters of every class, built, optimized and quantized, then run
NextInfer ==
    \/ \E a \in AdapterIds, cls \in Classes, model_id \in {LocalDir, RepoId},
          file_name \in FileNameArgs :
            _from_pretrained(a, cls, model_id, file_name, "bert", "none")
    \/ \E a \in AdapterIds, cls \in Classes :
            _from_transformers(a, cls, RepoId, default_cache_path, "none")
    \/ \E a \in AdapterIds : optimize(a, 99, default_cache_path, "none")
    \/ \E a \in AdapterIds : quantize(a, FALSE, default_cache_path, "none")
    \/ \E a \in AdapterIds, input_ids, attention_mask, token_type_ids, run_fails \in BOOLEAN :
            forward(a, input_ids, attention_mask, token_type_ids, run_fails)
    \/ \E a \in AdapterIds, attention_mask, other_kwargs \in BOOLEAN :
            prepare_inputs_for_generation(a, attention_mask, other_kwargs)
    \/ \E path \in {<<LocalDir, ONNX_WEIGHTS_NAME>>, <<OutDir, ONNX_WEIGHTS_NAME>>},
          provider \in Providers, fail \in BOOLEAN :
            load_model_call(path, provider, fail)

SpecInfer == Init /\ [][NextInfer]_vars

\* two adapter instances of one process, both with the default cache directory
PairIds == {"A", "B"}

\* both adapters constructed by from_pretrained(LocalDir) from the same local file
InitPair ==
    /\ gpu \in BOOLEAN
    /\ disk = InitialDisk
    /\ \E cls \in PretrainedClasses :
          adapters = [a \in PairIds |->
              __init__(IF a = "A" THEN "ORTModelForSequenceClassification" ELSE cls,
                       load_model(InitialDisk, <<LocalDir, ONNX_WEIGHTS_NAME>>, None),
                       [model_type |-> "bert"],
                       local_kwargs(LocalDir, None))]
    /\ last = NoCall
    /\ ncalls = 0

NextPair ==
    \/ \E a \in PairIds, level \in OptimizationLevels :
            optimize(a, level, default_cache_path, "none")
    \/ \E a \in PairIds : quantize(a, FALSE, default_cache_path, "none")
    \/ \E a \in PairIds, save_directory \in SaveDirs :
            _save_pretrained(a, save_directory, None)

SpecPair == InitPair /\ [][NextPair]_vars

-----------------------------------------------------------------------------
(* Properties *)

\* a step that is a call (not a stuttering step)
callstep == ncalls' # ncalls

\* the well-known file optimize (quantize) writes
pass_output(op) ==
    IF op = "optimize" THEN <<default_cache_path, OPTIMIZED_ONNX_WEIGHTS_NAME>>
    ELSE <<default_cache_path, QUANTIZED_ONNX_WEIGHTS_NAME>>

pass_ok == last.op \in {"optimize", "quantize"} /\ last.ok

\* C1: after a successful optimize (quantize) the adapter's save directory and latest
\* name are those of the well-known optimized (quantized) file, its handle is the
\* session opened on that file as written by the call, and the call returns the adapter.
C1_PassRepointsAdapter ==
    pass_ok =>
        LET ad  == adapters[last.a]
            out == pass_output(last.op)
        IN  /\ ad.model_save_dir = out[1]
            /\ ad.latest_model_name = out[2]
            /\ exists(out)
            /\ ad.model = InferenceSession(disk, out, default_provider(gpu))
            /\ last.res.ret = last.a

\* C1 witness: a quantize that succeeded on an adapter that was optimized before
C1_Witness ==
    /\ last.op = "quantize" /\ last.ok
    /\ Len(adapters[last.a].model.content.passes) = 2
    /\ adapters[last.a].model.content.passes[2] = "ONNXQuantizer"

\* C2: a successful optimize or quantize leaves the artifact that was current before
\* the call on disk with the content it had, and changes no file that already existed.
C2_PriorArtifactUnchanged ==
    [][(callstep /\ last'.op \in {"optimize", "quantize"} /\ last'.ok) =>
          /\ disk'[current_path(adapters[last'.a])] = disk[current_path(adapters[last'.a])]
          /\ \A p \in Paths : exists(p) => disk'[p] = disk[p]]_vars

\* C3: a quantize call with a static configuration, or with a GPU reported, raises
\* without any external call (no model read, no quantizer, no file written) and
\* leaves the files and the adapter as they were.
C3_QuantizeRejects ==
    [][(callstep /\ last'.op = "quantize" /\ (last'.arg.is_static \/ gpu)) =>
          /\ ~last'.ok
          /\ last'.calls = <<>>
          /\ disk' = disk
          /\ adapters' = adapters]_vars

\* C3 witness: a quantize call with a static configuration was rejected on a machine
\* without GPU
C3_Witness ==
    last.op = "quantize" /\ last.arg.is_static /\ ~gpu /\ ~last.ok

\* C4: optimize on an adapter whose model type is not in the registry raises before
\* the optimizer is called, and no file is written.
C4_OptimizeUnsupported ==
    [][(callstep /\ last'.op = "optimize"
            /\ adapters[last'.a].config.model_type \notin Registry) =>
          /\ ~last'.ok
          /\ last'.calls = <<>>
          /\ disk' = disk
          /\ adapters' = adapters]_vars

\* C4 witness: optimize was refused for an adapter of an unregistered model type
C4_Witness ==
    /\ last.op = "optimize" /\ ~last.ok
    /\ adapters[last.a].config.model_type \notin Registry

\* C5: after a successful save to directory D under name N, the handle loaded from D
\* with file name N declares the same input and output names as the adapter's handle.
C5_RoundTrip ==
    (last.op = "_save_pretrained" /\ last.ok) =>
        LET h == load_model(disk,
                     <<last.arg.save_directory, model_file_name(last.arg.file_name)>>, None)
        IN  /\ get_inputs(h) = get_inputs(adapters[last.a].model)
            /\ get_outputs(h) = get_outputs(adapters[last.a].model)

\* the state of an adapter, read from the artifact its bookkeeping names
AdapterState(ad) ==
    IF current_path(ad) = pass_output("optimize") THEN "optimized"
    ELSE IF current_path(ad) = pass_output("quantize") THEN "quantized"
    ELSE "constructed"

\* C6: a successful optimize puts the adapter in state optimized and a successful
\* quantize in state quantized, from any state, replacing handle and bookkeeping
\* together; any other call on a live adapter leaves the adapter as it was, so no
\* call moves an adapter back to constructed.
C6_StateMachine ==
    [][(callstep /\ last'.a \in AdapterIds /\ alive(last'.a)) =>
          LET before == adapters[last'.a]
              after  == adapters'[last'.a]
          IN  IF last'.op \in {"optimize", "quantize"} /\ last'.ok
              THEN /\ AdapterState(after) =
                        (IF last'.op = "optimize" THEN "optimized" ELSE "quantized")
                   /\ after.model.path = current_path(after)
                   /\ after.model.content = disk'[current_path(after)]
              ELSE after = before]_vars

\* C6 witness: an optimize that succeeded on a quantized adapter
C6_Witness ==
    /\ last.op = "optimize" /\ last.ok
    /\ Len(adapters[last.a].model.content.passes) = 2
    /\ adapters[last.a].model.content.passes[1] = "ONNXQuantizer"
    /\ AdapterState(adapters[last.a]) = "optimized"

\* C7: _from_pretrained on an existing directory loads the named file of that
\* directory without a download and takes the directory as save directory; otherwise
\* it downloads, and on success the save directory is the parent of the returned path
\* and the latest name is the returned file's name; a failed call creates no adapter.
C7_Locator ==
    last.op = "_from_pretrained" =>
        /\ IF isdir(last.arg.model_id)
           THEN /\ ~called("hf_hub_download")
                /\ last.ok =>
                    LET ad == adapters[last.a]
                        path == <<last.arg.model_id, model_file_name(last.arg.file_name)>>
                    IN  /\ ad.model = InferenceSession(disk, path, default_provider(gpu))
                        /\ ad.model_save_dir = last.arg.model_id
           ELSE /\ called("hf_hub_download")
                /\ last.ok =>
                    LET ad == adapters[last.a]
                    IN  /\ ad.model_save_dir = last.res.path[1]
                        /\ ad.latest_model_name = last.res.path[2]
                        /\ ad.model = InferenceSession(disk, last.res.path,
                                                       default_provider(gpu))
        /\ ~last.ok => ~alive(last.a)

\* C7 witness: a download that stored the file under another name than the one asked for
C7_Witness ==
    /\ last.op = "_from_pretrained" /\ last.ok
    /\ ~isdir(last.arg.model_id)
    /\ last.res.path[2] # model_file_name(last.arg.file_name)

\* C8: a successful save copies the file the adapter's handle was loaded from to the
\* destination, whose content is then that of the active artifact; the adapter and
\* the source file are unchanged.
C8_SaveCopiesActive ==
    [][(callstep /\ last'.op = "_save_pretrained" /\ last'.ok) =>
          LET ad == adapters[last'.a]
          IN  /\ last'.res.src = ad.model.path
              /\ disk'[last'.res.dst] = ad.model.content
              /\ disk'[ad.model.path] = disk[ad.model.path]
              /\ adapters' = adapters]_vars

\* the task labels of the exporter interface
TaskVocabulary == {"default", "sequence-classification", "question-answering",
                   "token-classification", "causal-lm"}

\* C9: the label handed to the exporter is the class's own label when it has one (the
\* upstream tag is then not read), else the remapped upstream tag; and either the
\* label is in the task vocabulary or the call raises and exports nothing.
C9_TaskLabel ==
    last.op = "_from_transformers" =>
        /\ IF pipeline_task(last.arg.cls) # None
           THEN last.res.task = pipeline_task(last.arg.cls) /\ ~called("model_info")
           ELSE last.res.task = remap(last.arg.tag) /\ called("model_info")
        /\ \/ last.res.task \in TaskVocabulary
           \/ ~last.ok /\ ~last.res.exported

\* C10: a successful quantize writes the quantized artifact inside the directory given
\* as output_path, and that directory is the adapter's save directory afterwards.
C10_QuantizeOutputPath ==
    (last.op = "quantize" /\ last.ok) =>
        /\ adapters[last.a].model_save_dir = last.arg.output_path
        /\ adapters[last.a].model.path[1] = last.arg.output_path
        /\ exists(<<last.arg.output_path, adapters[last.a].latest_model_name>>)

\* the handle declares every output name the adapter's class reads
handle_declares(ad) == Range(required_outputs(ad.cls)) \subseteq Range(get_outputs(ad.model))

TaskClasses == Classes \ {"ORTModel"}

\* C11: when the engine has run for a task adapter whose handle declares all required
\* output names, forward succeeds and every result field holds the data of the output
\* of that name; when a required name is not declared, forward raises.
C11_RequiredOutputs ==
    (last.op = "forward" /\ adapters[last.a].cls \in TaskClasses /\ last.res.run_ok) =>
        IF handle_declares(adapters[last.a])
        THEN /\ last.ok
             /\ \A f \in Range(required_outputs(adapters[last.a].cls)) :
                    last.res.result[f] = f
        ELSE ~last.ok

C13_GenerationInputs ==
    last.op = "prepare_inputs_for_generation" =>
        /\ last.res.inputs \subseteq {"input_ids", "attention_mask"}
        /\ "input_ids" \in last.res.inputs
        /\ forward_call(adapters[last.a], "input_ids" \in last.res.inputs,
                        "attention_mask" \in last.res.inputs, FALSE, FALSE).runs = 1

\* C14: load_model without a provider opens the session on CUDAExecutionProvider when
\* a GPU is available and on CPUExecutionProvider otherwise; with a provider given it
\* opens it on that provider; a failed load returns no handle.
C14_Provider ==
    last.op = "load_model" =>
        IF last.ok
        THEN /\ last.res.handle.path = last.arg.path
             /\ last.res.handle.provider =
                    IF last.arg.provider # None THEN last.arg.provider
                    ELSE IF gpu THEN "CUDAExecutionProvider" ELSE "CPUExecutionProvider"
        ELSE last.res.handle = NoHandle

\* C14 witness: a session opened on the CPU provider by request although a GPU is there
C14_Witness ==
    /\ last.op = "load_model" /\ last.ok /\ gpu
    /\ last.arg.provider = "CPUExecutionProvider"

\* no external call appears twice in the last call
no_retry(calls) == \A i, j \in DOMAIN calls : calls[i] = calls[j] => i = j

\* C15: a failed optimize or quantize makes each external call at most once and leaves
\* the adapter's handle, save directory and latest name as they were; and any call on
\* a live adapter either leaves all three or replaces all three.
C15_FailureKeepsAdapter ==
    [][(callstep /\ last'.a \in AdapterIds /\ alive(last'.a)) =>
          LET before == adapters[last'.a]
              after  == adapters'[last'.a]
          IN  /\ (last'.op \in {"optimize", "quantize"} /\ ~last'.ok) =>
                    /\ no_retry(last'.calls)
                    /\ after.model = before.model
                    /\ after.model_save_dir = before.model_save_dir
                    /\ after.latest_model_name = before.latest_model_name
              /\ \/ /\ after.model = before.model
                    /\ after.model_save_dir = before.model_save_dir
                    /\ after.latest_model_name = before.latest_model_name
                 \/ /\ last'.ok
                    /\ after.model.path = pass_output(last'.op)
                    /\ current_path(after) = pass_output(last'.op)]_vars

\* C15 witness: optimize failed in load_model, after the optimized file was written
C15_Witness ==
    /\ last.op = "optimize" /\ ~last.ok /\ called("load_model")
    /\ exists(pass_output("optimize"))

\* C16: the path model_save_dir/latest_model_name of every adapter is the path of the
\* file its handle was loaded from.
C16_Bookkeeping ==
    \A a \in AdapterIds : alive(a) => current_path(adapters[a]) = adapters[a].model.path

\* C17: the name-to-position mapping of every task adapter is the mapping of the
\* outputs its current handle declares.
C17_OutputMapping ==
    \A a \in AdapterIds :
        (alive(a) /\ adapters[a].cls \in TaskClasses) =>
            adapters[a].model_outputs = name_to_idx(get_outputs(adapters[a].model))

\* C18: with two adapters on the same cache directory, a call on one adapter leaves
\* the file the other adapter's bookkeeping references with the content it had; after
\* every call each adapter's referenced file holds the artifact its handle was loaded
\* from; and a successful save writes the artifact of the adapter it was called on.
C18_Isolation ==
    [][(callstep /\ last'.a \in PairIds) =>
          /\ \A x \in PairIds \ {last'.a} :
                disk'[current_path(adapters[x])] = disk[current_path(adapters[x])]
          /\ \A x \in PairIds :
                disk'[current_path(adapters'[x])] = adapters'[x].model.content
          /\ (last'.op = "_save_pretrained" /\ last'.ok) =>
                disk'[last'.res.dst] = adapters[last'.a].model.content]_vars

====
